---- MODULE Spec2Model ----
(***************************************************************************)
(* A model of topo_from_gml.py: the ZooTopo topology builder and main(),   *)
(* the orchestrator that instantiates, starts, configures and stops the    *)
(* emulated network.  One run of the program is one behaviour.             *)
(***************************************************************************)
EXTENDS Integers, Sequences, FiniteSets, TLC

\* Bounds of the model: the largest graph the loader returns.
MaxNodes == 2
MaxEdges == 2

VARIABLES
    argc,           \* len(sys.argv)
    fileExists,     \* os.path.exists(gml_file)
    fileReadable,   \* os.access(gml_file, os.R_OK)
    pc,             \* position of the run in main() / ZooTopo
    G,              \* the graph nx.read_gml returned
    node_mapping,   \* self.node_mapping: vertex label -> switch name
    i,              \* index of the loop the run is in
    topo,           \* the topology description: addSwitch/addLink/addHost in order
    hookCalls,      \* number of times ZooTopo.build() (the hook) ran
    net,            \* "unbound" | "bound": whether 'net' is in locals()
    trace,          \* calls main() made on the emulator, in order, with their result
    live,           \* some backend object (node, link) of the run exists, unreleased
    exc,            \* the exception in flight, "none" if none
    outcome,        \* how the try body ended, as a kind of the error taxonomy
    diag,           \* the diagnostic the top-level handler printed
    pendingExit,    \* the status of the sys.exit() in flight, -1 if none
    warned,         \* the cleanup warning was printed
    exitCode        \* the process's exit status, -1 while it runs

vars == <<argc, fileExists, fileReadable, pc, G, node_mapping, i, topo, hookCalls,
          net, trace, live, exc, outcome, diag, pendingExit, warned, exitCode>>

--------------------------------------------------------------------------
\* Names.  A name is the sequence of its characters.

Digits == <<"0", "1", "2", "3", "4", "5", "6", "7", "8", "9">>

RECURSIVE Decimal(_)
\* str(n) for n >= 0, as the f-string formats it.
Decimal(n) == IF n < 10 THEN <<Digits[n + 1]>>
              ELSE Decimal(n \div 10) \o <<Digits[(n % 10) + 1]>>

\* Mutant: the index is left out of the name.
SwitchName_NoIndex(k) == <<"s", "0">>

\* switch_name = f's{i}'
SwitchName(k) == <<"s">> \o Decimal(k)

\* Mutant: the host takes the switch's name unchanged.
HostName_Identity(sw) == sw

\* host_name = switch_name.replace('s', 'h')
HostName(sw) == [k \in 1..Len(sw) |-> IF sw[k] = "s" THEN "h" ELSE sw[k]]

NoName == << >>

--------------------------------------------------------------------------
\* The graphs nx.read_gml can return (parallel edges and self-loops included,
\* as a multigraph file gives them).  Vertices are labels 1..n in the loader's
\* iteration order; G.edges() reports the edges grouped by source vertex in
\* that order, an undirected edge once, from its first endpoint.

Range(s) == {s[k] : k \in 1..Len(s)}

Pos(s, x) == CHOOSE k \in 1..Len(s) : s[k] = x

SeqsUpTo(S, n) == UNION {[1..k -> S] : k \in 0..n}

NodeOrders == UNION {{s \in [1..n -> 1..n] : \A a, b \in 1..n : s[a] = s[b] => a = b} :
                     n \in 0..MaxNodes}

EdgesOk(nodes, edges, directed) ==
    /\ \A k \in 1..Len(edges) : edges[k][1] \in Range(nodes) /\ edges[k][2] \in Range(nodes)
    /\ \A k \in 1..(Len(edges) - 1) : Pos(nodes, edges[k][1]) <= Pos(nodes, edges[k + 1][1])
    /\ ~directed => \A k \in 1..Len(edges) : Pos(nodes, edges[k][1]) <= Pos(nodes, edges[k][2])

Graphs ==
    {[nodes |-> ns, edges |-> es, directed |-> d] :
        <<ns, es, d>> \in
            {q \in NodeOrders \X SeqsUpTo((1..MaxNodes) \X (1..MaxNodes), MaxEdges) \X BOOLEAN :
                EdgesOk(q[1], q[2], q[3])}}

NoGraph == [nodes |-> << >>, edges |-> << >>, directed |-> FALSE]

\* Mutant: the empty check never fires.
EmptyGraph_Never(g) == FALSE

\* len(G.nodes()) == 0
EmptyGraph(g) == Len(g.nodes) = 0

--------------------------------------------------------------------------
\* The topology description (mininet.topo.Topo as the builder uses it).

\* addSwitch(switch_name, cls=OVSKernelSwitch): no failMode is passed.
SwitchCmd(name) ==
    [op |-> "addSwitch", a |-> name, b |-> NoName, cls |-> "OVSKernelSwitch", failMode |-> "unset"]

\* addLink(a, b)
LinkCmd(x, y) == [op |-> "addLink", a |-> x, b |-> y, cls |-> "none", failMode |-> "none"]

\* addHost(host_name)
HostCmd(name) == [op |-> "addHost", a |-> name, b |-> NoName, cls |-> "none", failMode |-> "none"]

\* Mutant: the access link is added before its host.
HostStep_LinkFirst(host_name, switch_name) ==
    <<LinkCmd(host_name, switch_name), HostCmd(host_name)>>

\* Mutant: every host is attached to the first switch.
HostStep_FirstSwitch(host_name, switch_name) ==
    <<HostCmd(host_name), LinkCmd(host_name, <<"s", "0">>)>>

\* self.addHost(host_name); self.addLink(host_name, switch_name)
HostStep(host_name, switch_name) ==
    <<HostCmd(host_name), LinkCmd(host_name, switch_name)>>

NodeOps == {"addSwitch", "addHost"}

\* The kind a name has in the description: the last node command on it wins.
IsLastNodeCmd(cmds, k) ==
    \A j \in (k + 1)..Len(cmds) : ~(cmds[j].op \in NodeOps /\ cmds[j].a = cmds[k].a)

NodeNames(cmds) == {cmds[k].a : k \in {j \in 1..Len(cmds) : cmds[j].op \in NodeOps}}

TopoSwitches(cmds) ==
    {cmds[k].a : k \in {j \in 1..Len(cmds) : cmds[j].op = "addSwitch" /\ IsLastNodeCmd(cmds, j)}}

TopoHosts(cmds) ==
    {cmds[k].a : k \in {j \in 1..Len(cmds) : cmds[j].op = "addHost" /\ IsLastNodeCmd(cmds, j)}}

\* The links, by position in the description (parallel links are kept).
TopoLinks(cmds) == {k \in 1..Len(cmds) : cmds[k].op = "addLink"}

--------------------------------------------------------------------------
\* Exceptions.

\* The classes 'except Exception' catches, among those in flight here.
ExceptionClasses == {"ValueError", "FileNotFoundError", "PermissionError", "RuntimeError",
                     "Exception"}

\* ZooTopo.__init__: except Exception as e: raise RuntimeError(...)
WrapBuildError(e) == IF e \in ExceptionClasses THEN "RuntimeError" ELSE e

\* What the emulator can raise from a call.
BackendErrors == {"RuntimeError", "PermissionError", "Exception"}

Raise(e, kind) ==
    /\ exc' = e
    /\ outcome' = kind
    /\ pc' = "except"

--------------------------------------------------------------------------
Init ==
    /\ argc \in 1..3
    /\ fileExists \in BOOLEAN
    /\ fileReadable \in BOOLEAN
    /\ ~fileExists => ~fileReadable
    /\ pc = "argcheck"
    /\ G = NoGraph
    /\ node_mapping = << >>
    /\ i = 0
    /\ topo = << >>
    /\ hookCalls = 0
    /\ net = "unbound"
    /\ trace = << >>
    /\ live = FALSE
    /\ exc = "none"
    /\ outcome = "running"
    /\ diag = "none"
    /\ pendingExit = -1
    /\ warned = FALSE
    /\ exitCode = -1

\* main(): if len(sys.argv) != 2: usage, sys.exit(1); otherwise enter the try.
ArgCheck ==
    /\ pc = "argcheck"
    /\ IF argc # 2
       THEN /\ pc' = "exited"
            /\ diag' = "Usage"
            /\ outcome' = "BadArguments"
            /\ exitCode' = 1
       ELSE /\ pc' = "validate"
            /\ UNCHANGED <<diag, outcome, exitCode>>
    /\ UNCHANGED <<argc, fileExists, fileReadable, G, node_mapping, i, topo, hookCalls,
                   net, trace, live, exc, pendingExit, warned>>

\* Mutant: the access probe runs before the existence check.
ValidationError_AccessFirst(exists, readable) ==
    IF ~readable THEN "PermissionError"
    ELSE IF ~exists THEN "FileNotFoundError"
    ELSE "none"

\* What the checks of ZooTopo.__init__ raise: os.path.exists, then os.access.
ValidationError(exists, readable) ==
    IF ~exists THEN "FileNotFoundError"
    ELSE IF ~readable THEN "PermissionError"
    ELSE "none"

\* The taxonomy kind of what the validation raised.
ValidationKind(e) == IF e = "FileNotFoundError" THEN "FileMissing" ELSE "NotReadable"

\* ZooTopo.__init__: the existence and readability checks, outside the wrapper.
Validate ==
    /\ pc = "validate"
    /\ LET e == ValidationError(fileExists, fileReadable)
       IN  IF e # "none"
           THEN Raise(e, ValidationKind(e))
           ELSE /\ pc' = "super_init"
                /\ UNCHANGED <<exc, outcome>>
    /\ UNCHANGED <<argc, fileExists, fileReadable, G, node_mapping, i, topo, hookCalls,
                   net, trace, live, diag, pendingExit, warned, exitCode>>

\* Mutant: the hook builds as well.
BuildHook_Builds(cmds) == Append(cmds, SwitchCmd(<<"s", "0">>))

\* ZooTopo.build(): pass.
BuildHook(cmds) == cmds

\* super().__init__(**opts): the base class runs the build hook.
SuperInit ==
    /\ pc = "super_init"
    /\ topo' = BuildHook(topo)
    /\ hookCalls' = hookCalls + 1
    /\ pc' = "load"
    /\ UNCHANGED <<argc, fileExists, fileReadable, G, node_mapping, i, net, trace, live,
                   exc, outcome, diag, pendingExit, warned, exitCode>>

\* _build_topology: G = nx.read_gml(...), the parse error and the empty check.
\* Both ValueErrors pass through ZooTopo.__init__'s wrapper; an interrupt does not.
Load ==
    /\ pc = "load"
    /\ \/ /\ Raise(WrapBuildError("ValueError"), "MalformedGml")
          /\ UNCHANGED <<G, i>>
       \/ /\ Raise(WrapBuildError("KeyboardInterrupt"), "Interrupted")
          /\ UNCHANGED <<G, i>>
       \/ \E g \in Graphs :
            /\ G' = g
            /\ IF EmptyGraph(g)
               THEN /\ Raise(WrapBuildError("ValueError"), "EmptyGraph")
                    /\ UNCHANGED i
               ELSE /\ pc' = "switches"
                    /\ i' = 0
                    /\ UNCHANGED <<exc, outcome>>
    /\ UNCHANGED <<argc, fileExists, fileReadable, node_mapping, topo, hookCalls,
                   net, trace, live, diag, pendingExit, warned, exitCode>>

\* for i, node in enumerate(G.nodes()): one iteration.  The mapping is recorded
\* before addSwitch runs, so a rejected addSwitch leaves the mapping entry.
AddSwitch ==
    /\ pc = "switches"
    /\ i < Len(G.nodes)
    /\ LET node == G.nodes[i + 1]
           switch_name == SwitchName(i)
       IN  /\ node_mapping' = [l \in (DOMAIN node_mapping) \cup {node} |->
                                  IF l = node THEN switch_name ELSE node_mapping[l]]
           /\ \/ /\ topo' = Append(topo, SwitchCmd(switch_name))
                 /\ i' = i + 1
                 /\ UNCHANGED <<pc, exc, outcome>>
              \/ /\ Raise(WrapBuildError("Exception"), "BuildFailed")
                 /\ UNCHANGED <<topo, i>>
    /\ UNCHANGED <<argc, fileExists, fileReadable, G, hookCalls, net, trace, live,
                   diag, pendingExit, warned, exitCode>>

\* The switch loop is exhausted: on to 'for src, dst in G.edges()'.
SwitchesDone ==
    /\ pc = "switches"
    /\ i = Len(G.nodes)
    /\ pc' = "links"
    /\ i' = 0
    /\ UNCHANGED <<argc, fileExists, fileReadable, G, node_mapping, topo, hookCalls, net,
                   trace, live, exc, outcome, diag, pendingExit, warned, exitCode>>

\* for src, dst in G.edges(): one iteration.
AddInterSwitchLink ==
    /\ pc = "links"
    /\ i < Len(G.edges)
    /\ LET src_switch == node_mapping[G.edges[i + 1][1]]
           dst_switch == node_mapping[G.edges[i + 1][2]]
       IN  \/ /\ topo' = Append(topo, LinkCmd(src_switch, dst_switch))
              /\ i' = i + 1
              /\ UNCHANGED <<pc, exc, outcome>>
           \/ /\ Raise(WrapBuildError("Exception"), "BuildFailed")
              /\ UNCHANGED <<topo, i>>
    /\ UNCHANGED <<argc, fileExists, fileReadable, G, node_mapping, hookCalls, net, trace,
                   live, diag, pendingExit, warned, exitCode>>

\* The edge loop is exhausted: on to 'for node in G.nodes()'.
LinksDone ==
    /\ pc = "links"
    /\ i = Len(G.edges)
    /\ pc' = "hosts"
    /\ i' = 0
    /\ UNCHANGED <<argc, fileExists, fileReadable, G, node_mapping, topo, hookCalls, net,
                   trace, live, exc, outcome, diag, pendingExit, warned, exitCode>>

\* for node in G.nodes(): one iteration, addHost then addLink(host, switch).
AddHostAndLink ==
    /\ pc = "hosts"
    /\ i < Len(G.nodes)
    /\ LET switch_name == node_mapping[G.nodes[i + 1]]
           host_name == HostName(switch_name)
           step == HostStep(host_name, switch_name)
       IN  \/ /\ topo' = topo \o step
              /\ i' = i + 1
              /\ UNCHANGED <<pc, exc, outcome>>
           \/ /\ Raise(WrapBuildError("Exception"), "BuildFailed")
              /\ UNCHANGED <<topo, i>>
           \/ /\ topo' = Append(topo, step[1])
              /\ Raise(WrapBuildError("Exception"), "BuildFailed")
              /\ UNCHANGED i
    /\ UNCHANGED <<argc, fileExists, fileReadable, G, node_mapping, hookCalls, net, trace,
                   live, diag, pendingExit, warned, exitCode>>

\* The host loop is exhausted: ZooTopo(...) returns to main().
HostsDone ==
    /\ pc = "hosts"
    /\ i = Len(G.nodes)
    /\ pc' = "net_ctor"
    /\ i' = 0
    /\ UNCHANGED <<argc, fileExists, fileReadable, G, node_mapping, topo, hookCalls, net,
                   trace, live, exc, outcome, diag, pendingExit, warned, exitCode>>

--------------------------------------------------------------------------
\* main(): the emulator.

\* One call on the emulator: what was called, on which node, with what, and how it ended.
Call(op, target, arg, result) == [op |-> op, target |-> target, arg |-> arg, result |-> result]

\* The taxonomy kind of what a backend call raised.
BackendKind(e) ==
    CASE e = "RuntimeError" -> "BackendRuntime"
      [] e = "PermissionError" -> "Permission"
      [] e = "KeyboardInterrupt" -> "Interrupted"
      [] OTHER -> "Unexpected"

\* The objects the emulator makes of a description: its nodes and its links.
TopoSize(cmds) == Cardinality(NodeNames(cmds)) + Cardinality(TopoLinks(cmds))

\* net.switches
NetSwitches(cmds) ==
    LET sw == SelectSeq(cmds, LAMBDA c : c.op = "addSwitch")
    IN  [k \in 1..Len(sw) |-> sw[k].a]

\* The keyword arguments of Mininet(...).
MininetArgs == "controller=None, switch=OVSKernelSwitch"

\* net = Mininet(topo=topo, controller=None, switch=OVSKernelSwitch).  The
\* constructor creates the nodes and links; when it raises part of the way,
\* what it created stays and 'net' is never bound.
NetCtor ==
    /\ pc = "net_ctor"
    /\ \/ /\ trace' = Append(trace, Call("Mininet", NoName, MininetArgs, "ok"))
          /\ live' = (TopoSize(topo) > 0)
          /\ net' = "bound"
          /\ pc' = "start"
          /\ UNCHANGED <<exc, outcome>>
       \/ \E e \in BackendErrors \cup {"KeyboardInterrupt"}, some \in BOOLEAN :
            /\ some => TopoSize(topo) > 0
            /\ trace' = Append(trace, Call("Mininet", NoName, MininetArgs,
                                           IF e = "KeyboardInterrupt" THEN "interrupt" ELSE "error"))
            /\ live' = some
            /\ Raise(e, BackendKind(e))
            /\ UNCHANGED net
    /\ UNCHANGED <<argc, fileExists, fileReadable, G, node_mapping, i, topo, hookCalls,
                   diag, pendingExit, warned, exitCode>>

\* A blocking call of main() on the running network: it returns, raises or is
\* interrupted.
BlockingCall(op, target, arg, errors, next, idx) ==
    \/ /\ trace' = Append(trace, Call(op, target, arg, "ok"))
       /\ pc' = next
       /\ i' = idx
       /\ UNCHANGED <<exc, outcome>>
    \/ \E e \in errors :
         /\ trace' = Append(trace, Call(op, target, arg, "error"))
         /\ Raise(e, BackendKind(e))
         /\ UNCHANGED i
    \/ /\ trace' = Append(trace, Call(op, target, arg, "interrupt"))
       /\ Raise("KeyboardInterrupt", "Interrupted")
       /\ UNCHANGED i

\* Mutant: the settle wait after start() is missing.
AfterStart_NoSettle == "stp"

\* Where main() goes when net.start() has returned: the 2 s settle wait.
AfterStart == "sleep2"

\* net.start()
Start ==
    /\ pc = "start"
    /\ BlockingCall("start", NoName, "none", BackendErrors, AfterStart, 0)
    /\ UNCHANGED <<argc, fileExists, fileReadable, G, node_mapping, topo, hookCalls, net,
                   live, diag, pendingExit, warned, exitCode>>

\* time.sleep(2)
SettleAfterStart ==
    /\ pc = "sleep2"
    /\ BlockingCall("sleep", NoName, "2", {}, "stp", 0)
    /\ UNCHANGED <<argc, fileExists, fileReadable, G, node_mapping, topo, hookCalls, net,
                   live, diag, pendingExit, warned, exitCode>>

\* Mutant: the loop misses the first switch.
StpTargets_SkipFirst(cmds) == Tail(NetSwitches(cmds))

\* for switch in net.switches: the switches the loop visits.
StpTargets(cmds) == NetSwitches(cmds)

\* The setting the ovs-vsctl command makes on the bridge.
StpCommand == "stp_enable=false"

\* switch.cmd('ovs-vsctl set bridge <name> stp_enable=false'): one iteration.
DisableStp ==
    /\ pc = "stp"
    /\ i < Len(StpTargets(topo))
    /\ BlockingCall("ovs-vsctl set bridge", StpTargets(topo)[i + 1], StpCommand, BackendErrors, "stp", i + 1)
    /\ UNCHANGED <<argc, fileExists, fileReadable, G, node_mapping, topo, hookCalls, net,
                   live, diag, pendingExit, warned, exitCode>>

\* The STP loop is exhausted.
StpDone ==
    /\ pc = "stp"
    /\ i = Len(StpTargets(topo))
    /\ pc' = "sleep1"
    /\ i' = 0
    /\ UNCHANGED <<argc, fileExists, fileReadable, G, node_mapping, topo, hookCalls, net,
                   trace, live, exc, outcome, diag, pendingExit, warned, exitCode>>

\* time.sleep(1)
SettleAfterStp ==
    /\ pc = "sleep1"
    /\ BlockingCall("sleep", NoName, "1", {}, "cli", 0)
    /\ UNCHANGED <<argc, fileExists, fileReadable, G, node_mapping, topo, hookCalls, net,
                   live, diag, pendingExit, warned, exitCode>>

\* CLI(net): returns when the user leaves it, or raises, or is interrupted.
RunCli ==
    /\ pc = "cli"
    /\ \/ /\ trace' = Append(trace, Call("CLI", NoName, "none", "ok"))
          /\ pc' = "finally"
          /\ outcome' = "Clean"
          /\ UNCHANGED exc
       \/ \E e \in BackendErrors :
            /\ trace' = Append(trace, Call("CLI", NoName, "none", "error"))
            /\ Raise(e, BackendKind(e))
       \/ /\ trace' = Append(trace, Call("CLI", NoName, "none", "interrupt"))
          /\ Raise("KeyboardInterrupt", "Interrupted")
    /\ UNCHANGED <<argc, fileExists, fileReadable, G, node_mapping, i, topo, hookCalls, net,
                   live, diag, pendingExit, warned, exitCode>>

--------------------------------------------------------------------------
\* main(): the except clauses and the finally block.

\* The except clause that takes e, in the order main() lists them: the
\* diagnostic it prints and the status of its sys.exit, -1 when it has none.
Handler(e) ==
    CASE e = "FileNotFoundError" -> [diag |-> "File Error", exit |-> 1]
      [] e = "PermissionError" -> [diag |-> "Permission Error", exit |-> 1]
      [] e = "ValueError" -> [diag |-> "Format Error", exit |-> 1]
      [] e = "RuntimeError" -> [diag |-> "Runtime Error", exit |-> 1]
      [] e = "KeyboardInterrupt" -> [diag |-> "Interrupted", exit |-> -1]
      [] OTHER -> [diag |-> "Unexpected Error", exit |-> 1]

Except ==
    /\ pc = "except"
    /\ diag' = Handler(exc).diag
    /\ pendingExit' = Handler(exc).exit
    /\ exc' = IF Handler(exc).exit = -1 THEN "none" ELSE "SystemExit"
    /\ pc' = "finally"
    /\ UNCHANGED <<argc, fileExists, fileReadable, G, node_mapping, i, topo, hookCalls, net,
                   trace, live, outcome, warned, exitCode>>

\* Mutant: the cleanup stops the network whether or not it was bound.
NetInLocals_Always == TRUE

\* if 'net' in locals():
NetInLocals == net = "bound"

\* Mutant: the cleanup lets a failure of net.stop() escape.
CleanupCatches_Nothing(result) == FALSE

\* except Exception as cleanup_error: what of net.stop()'s results it catches.
CleanupCatches(result) == result = "error"

\* The status of a process that dies of an uncaught KeyboardInterrupt: 1, or
\* death by SIGINT (130), by interpreter version.
InterruptExitStatus == {1, 130}

\* The status when main() returns or the pending sys.exit leaves it.
StatusOf(pending) == IF pending = -1 THEN 0 ELSE pending

\* finally: net.stop() if the network was bound, its failure caught as a warning.
Finally ==
    /\ pc = "finally"
    /\ pc' = "exited"
    /\ IF NetInLocals
       THEN \/ /\ trace' = Append(trace, Call("stop", NoName, "none", "ok"))
               /\ live' = FALSE
               /\ exitCode' = StatusOf(pendingExit)
               /\ UNCHANGED <<warned, exc>>
            \/ \E left \in BOOLEAN :
                 /\ left => live
                 /\ trace' = Append(trace, Call("stop", NoName, "none", "error"))
                 /\ live' = left
                 /\ IF CleanupCatches("error")
                    THEN /\ warned' = TRUE
                         /\ exitCode' = StatusOf(pendingExit)
                         /\ UNCHANGED exc
                    ELSE /\ exc' = "Exception"
                         /\ exitCode' = 1
                         /\ UNCHANGED warned
            \/ \E left \in BOOLEAN :
                 /\ left => live
                 /\ trace' = Append(trace, Call("stop", NoName, "none", "interrupt"))
                 /\ live' = left
                 /\ IF CleanupCatches("interrupt")
                    THEN /\ warned' = TRUE
                         /\ exitCode' = StatusOf(pendingExit)
                         /\ UNCHANGED exc
                    ELSE /\ exc' = "KeyboardInterrupt"
                         /\ exitCode' \in InterruptExitStatus
                         /\ UNCHANGED warned
       ELSE /\ exitCode' = StatusOf(pendingExit)
            /\ UNCHANGED <<trace, live, warned, exc>>
    /\ UNCHANGED <<argc, fileExists, fileReadable, G, node_mapping, i, topo, hookCalls, net,
                   outcome, diag, pendingExit>>

Next ==
    \/ ArgCheck
    \/ Validate
    \/ SuperInit
    \/ Load
    \/ AddSwitch
    \/ SwitchesDone
    \/ AddInterSwitchLink
    \/ LinksDone
    \/ AddHostAndLink
    \/ HostsDone
    \/ NetCtor
    \/ Start
    \/ SettleAfterStart
    \/ DisableStp
    \/ StpDone
    \/ SettleAfterStp
    \/ RunCli
    \/ Except
    \/ Finally

Spec == Init /\ [][Next]_vars

--------------------------------------------------------------------------
\* Vocabulary of the properties.

Exited == pc = "exited"

Calls(op) == {k \in 1..Len(trace) : trace[k].op = op}

Returned(op) == {k \in Calls(op) : trace[k].result = "ok"}

\* Mininet(...) returned a network.
Instantiated == Returned("Mininet") # {}

StopCalls == Cardinality(Calls("stop"))

\* _build_topology ran to its end and ZooTopo(...) returned.
BuildCompleted == pc = "net_ctor" \/ trace # << >>

\* The try body ended by a clean return of the CLI or by an interrupt.
EndedCleanOrInterrupted == outcome \in {"Clean", "Interrupted"}

AbortKinds == {"FileMissing", "NotReadable", "MalformedGml", "EmptyGraph"}

\* The address 10.0.0.(k+1)/24.
HostAddress(k) ==
    <<"1", "0", ".", "0", ".", "0", ".">> \o Decimal(k + 1) \o <<"/", "2", "4">>

--------------------------------------------------------------------------
\* C1: stop() is never invoked while no network was instantiated, never more
\* than once, and exactly once by the time the process has exited on a path
\* that instantiated the network.
C1_StopExactlyOnce ==
    /\ StopCalls <= 1
    /\ ~Instantiated => StopCalls = 0
    /\ (Exited /\ Instantiated) => StopCalls = 1

\* An interrupted run with a network: stopped once.
C1_Witness ==
    /\ Exited
    /\ Instantiated
    /\ outcome = "Interrupted"
    /\ StopCalls = 1

\* C2 (as claimed): once the process has exited, no backend object of the run
\* remains, also when the constructor failed part of the way or stop() raised.
C2_NoResourceRemains == Exited => ~live

\* C3 (as claimed): the exit status is 0 exactly when the run ended by a clean
\* return of the CLI or by an interrupt, and 1 for every error.
C3_ExitCodeByOutcome ==
    Exited => exitCode = (IF EndedCleanOrInterrupted THEN 0 ELSE 1)

\* C4: once build has completed on a graph with at least one vertex, the
\* description holds |V| switches, |V| hosts and |E| + |V| links.
C4_CountLaw ==
    BuildCompleted =>
        /\ Len(G.nodes) >= 1
        /\ Cardinality(TopoSwitches(topo)) = Len(G.nodes)
        /\ Cardinality(TopoHosts(topo)) = Len(G.nodes)
        /\ Cardinality(TopoLinks(topo)) = Len(G.edges) + Len(G.nodes)

\* A built graph of two vertices and two edges.
C4_Witness ==
    /\ pc = "net_ctor"
    /\ Len(G.nodes) = 2
    /\ Len(G.edges) = 2
    /\ Cardinality(TopoLinks(topo)) = 4

\* C5 (as claimed): every addSwitch carries the kernel-switch class and
\* failMode standalone.
C5_SwitchesStandalone ==
    \A k \in 1..Len(topo) :
        topo[k].op = "addSwitch" =>
            topo[k].cls = "OVSKernelSwitch" /\ topo[k].failMode = "standalone"

\* C6 (as claimed): before cli() is entered, setIP has been issued for every
\* host h_i with the address 10.0.0.(i+1)/24.
C6_HostAddressesAssigned ==
    \A c \in Calls("CLI") :
        \A k \in 0..(Len(G.nodes) - 1) :
            \E j \in 1..(c - 1) :
                /\ trace[j].op = "setIP"
                /\ trace[j].target = HostName(SwitchName(k))
                /\ trace[j].arg = HostAddress(k)

C8_CleanupFailureKeepsCode ==
    (Exited /\ \E k \in Calls("stop") : trace[k].result = "error") =>
        /\ warned
        /\ exitCode = (IF EndedCleanOrInterrupted THEN 0 ELSE 1)

\* stop() failed after a run that had already failed.
C8_Witness ==
    /\ Exited
    /\ \E k \in Calls("stop") : trace[k].result = "error"
    /\ outcome = "BackendRuntime"
    /\ warned
    /\ exitCode = 1

\* C9 (as claimed): a parse failure and an empty vertex set reach the top
\* level as the format kind, not as the kind that reports build and runtime
\* failures.
C9_FormatErrorsKeepTheirKind ==
    (diag # "none" /\ outcome \in {"MalformedGml", "EmptyGraph"}) =>
        diag = "Format Error"

\* C10: a run that aborts with FileMissing, NotReadable, MalformedGml or
\* EmptyGraph, and any run on a missing or unreadable file or an empty graph,
\* has issued no command of the description and none on the emulator.
C10_AbortBeforeBackend ==
    (\/ outcome \in AbortKinds
     \/ ~fileExists
     \/ ~fileReadable
     \/ Len(G.nodes) = 0) =>
        /\ topo = << >>
        /\ trace = << >>
        /\ net = "unbound"
        /\ ~live

\* The run has ended on an empty graph.
C10_Witness ==
    /\ Exited
    /\ outcome = "EmptyGraph"
    /\ exitCode = 1

--------------------------------------------------------------------------
\* Vocabulary of the properties about the description.

\* The links of the description that join x and y, in either direction.
LinksBetween(x, y) == {k \in TopoLinks(topo) : {topo[k].a, topo[k].b} = {x, y}}

\* The graph lists an edge from u to v.
Lists(u, v) == \E k \in 1..Len(G.edges) : G.edges[k] = <<u, v>>

\* The link at k is the access link of the host added just before it.
IsAccessLink(k) ==
    /\ topo[k].op = "addLink"
    /\ k > 1
    /\ topo[k - 1].op = "addHost"
    /\ topo[k - 1].a = topo[k].a

\* 1 for addSwitch, 2 for an inter-switch addLink, 3 for addHost and its access link.
PhaseOf(k) ==
    CASE topo[k].op = "addSwitch" -> 1
      [] topo[k].op = "addHost" -> 3
      [] OTHER -> IF IsAccessLink(k) THEN 3 ELSE 2

\* C11 (as claimed): an edge the graph lists in both directions yields exactly
\* one inter-switch link.
C11_BothDirectionsOneLink ==
    BuildCompleted =>
        \A u, v \in Range(G.nodes) :
            (u # v /\ Lists(u, v) /\ Lists(v, u)) =>
                Cardinality(LinksBetween(node_mapping[u], node_mapping[v])) = 1

\* C12: at every point of build the commands issued are switches, then
\* inter-switch links, then host / access-link pairs; a host that is not the
\* last command is followed at once by its link to a switch; and both
\* endpoints of every link were added before the link.
C12_BuildOrder ==
    /\ \A k \in 1..(Len(topo) - 1) : PhaseOf(k) <= PhaseOf(k + 1)
    /\ \A k \in 1..(Len(topo) - 1) :
        topo[k].op = "addHost" =>
            /\ topo[k + 1].op = "addLink"
            /\ topo[k + 1].a = topo[k].a
            /\ \E j \in 1..(k - 1) : topo[j].op = "addSwitch" /\ topo[j].a = topo[k + 1].b
    /\ \A k \in 1..Len(topo) :
        topo[k].op = "addLink" =>
            /\ \E j \in 1..(k - 1) : topo[j].op \in NodeOps /\ topo[j].a = topo[k].a
            /\ \E j \in 1..(k - 1) : topo[j].op \in NodeOps /\ topo[j].a = topo[k].b

\* A finished build with switches, inter-switch links and hosts.
C12_Witness ==
    /\ pc = "net_ctor"
    /\ Len(G.nodes) = 2
    /\ Len(G.edges) = 2
    /\ \E k \in 1..Len(topo) : PhaseOf(k) = 2
    /\ \E k \in 1..Len(topo) : IsAccessLink(k)

--------------------------------------------------------------------------
\* Reading a name back: its letter and the number its digits spell.

DigitValue(c) == CHOOSE d \in 0..9 : Digits[d + 1] = c

RECURSIVE DecimalValue(_)
DecimalValue(ds) ==
    IF Len(ds) = 0 THEN 0
    ELSE 10 * DecimalValue(SubSeq(ds, 1, Len(ds) - 1)) + DigitValue(ds[Len(ds)])

\* The name is the letter followed by one or more decimal digits.
WellFormed(name, letter) ==
    /\ Len(name) >= 2
    /\ name[1] = letter
    /\ \A k \in 2..Len(name) : name[k] \in Range(Digits)

NameIndex(name) == DecimalValue(Tail(name))

\* The links of the description that touch the node x.
LinksOf(x) == {k \in TopoLinks(topo) : x \in {topo[k].a, topo[k].b}}

\* C13: after build the mapping takes the k-th vertex of the loader's order to
\* the switch of index k-1, so it is a bijection onto 0..|V|-1; switch names
\* are 's' and host names 'h' followed by the decimal index, each index once,
\* and no name is both.
C13_NameBijection ==
    BuildCompleted =>
        LET switches == TopoSwitches(topo)
            hosts == TopoHosts(topo)
        IN  /\ DOMAIN node_mapping = Range(G.nodes)
            /\ \A k \in 1..Len(G.nodes) :
                /\ WellFormed(node_mapping[G.nodes[k]], "s")
                /\ NameIndex(node_mapping[G.nodes[k]]) = k - 1
            /\ \A u, v \in Range(G.nodes) : node_mapping[u] = node_mapping[v] => u = v
            /\ switches = {node_mapping[v] : v \in Range(G.nodes)}
            /\ \A h \in hosts : WellFormed(h, "h")
            /\ {NameIndex(h) : h \in hosts} = 0..(Len(G.nodes) - 1)
            /\ Cardinality(hosts) = Len(G.nodes)
            /\ switches \cap hosts = {}

\* Two vertices whose labels are not in index order, mapped and built.
C13_Witness ==
    /\ pc = "net_ctor"
    /\ G.nodes = <<2, 1>>
    /\ node_mapping[2] = <<"s", "0">>
    /\ node_mapping[1] = <<"s", "1">>

\* C14: after build every host has exactly one link, and it joins the host to
\* the switch of the same index; there is one host per vertex.
C14_AccessLinkLaw ==
    BuildCompleted =>
        LET switches == TopoSwitches(topo)
            hosts == TopoHosts(topo)
        IN  /\ Cardinality(hosts) = Len(G.nodes)
            /\ \A h \in hosts :
                LET links == LinksOf(h)
                IN  /\ Cardinality(links) = 1
                    /\ \A k \in links :
                        \E sw \in switches :
                            /\ {topo[k].a, topo[k].b} = {h, sw}
                            /\ NameIndex(sw) = NameIndex(h)

\* Two hosts, each with its access link, beside inter-switch links.
C14_Witness ==
    /\ pc = "net_ctor"
    /\ Cardinality(TopoHosts(topo)) = 2
    /\ Len(G.edges) >= 1
    /\ \A h \in TopoHosts(topo) : Cardinality(LinksOf(h)) = 1

\* C15: the build hook the base class runs adds nothing, no node command is
\* ever issued twice, and a finished build holds exactly one addSwitch, one
\* addHost and one access link per vertex and one link per edge.
C15_NoDoubleConstruction ==
    /\ pc = "load" => (hookCalls = 1 /\ topo = << >>)
    /\ hookCalls <= 1
    /\ \A x \in 1..Len(topo) :
        topo[x].op \in NodeOps => \A y \in (x + 1)..Len(topo) : topo[x] # topo[y]
    /\ BuildCompleted =>
        /\ Cardinality({k \in 1..Len(topo) : topo[k].op = "addSwitch"}) = Len(G.nodes)
        /\ Cardinality({k \in 1..Len(topo) : topo[k].op = "addHost"}) = Len(G.nodes)
        /\ Cardinality(TopoLinks(topo)) = Len(G.edges) + Len(G.nodes)

\* The hook has run and the eager build has finished.
C15_Witness ==
    /\ pc = "net_ctor"
    /\ hookCalls = 1
    /\ Len(G.nodes) = 2
    /\ Len(topo) = 6 + Len(G.edges)

--------------------------------------------------------------------------
\* Vocabulary of the properties about the stages.

\* The place of a call on the emulator in main(): Mininet, start, the 2 s
\* wait, the STP loop, the 1 s wait, the CLI, and stop last.
Rank(c) ==
    CASE c.op = "Mininet" -> 1
      [] c.op = "start" -> 2
      [] c.op = "sleep" /\ c.arg = "2" -> 3
      [] c.op = "ovs-vsctl set bridge" -> 4
      [] c.op = "sleep" /\ c.arg = "1" -> 5
      [] c.op = "CLI" -> 6
      [] OTHER -> 7

\* The build has issued every command of the graph.
DescriptionComplete ==
    /\ Len(G.nodes) >= 1
    /\ Len(topo) = 3 * Len(G.nodes) + Len(G.edges)

\* Validation precedes the load, the load precedes the mapping, the emulator
\* is instantiated only on a complete description, and the calls on the
\* emulator follow main()'s order, each once and each after the one before it
\* returned; the 1 s wait and the CLI come after STP was disabled on all switches.
StagesOutsideMapAndBuild ==
    /\ (G # NoGraph \/ outcome \in {"MalformedGml", "EmptyGraph"}) =>
           (fileExists /\ fileReadable /\ hookCalls = 1)
    /\ node_mapping # << >> => Len(G.nodes) >= 1
    /\ trace # << >> => (Rank(trace[1]) = 1 /\ DescriptionComplete)
    /\ \A k \in 2..Len(trace) :
        /\ Rank(trace[k - 1]) < 7
        /\ Rank(trace[k]) < 7 =>
            /\ trace[k - 1].result = "ok"
            /\ \/ Rank(trace[k]) = Rank(trace[k - 1]) + 1
               \/ Rank(trace[k]) = 4 /\ Rank(trace[k - 1]) = 4
        /\ Rank(trace[k]) = 5 =>
            Cardinality(Returned("ovs-vsctl set bridge")) = Cardinality(TopoSwitches(topo))

C17_ValidationClassifies ==
    (argc = 2 /\ pc \notin {"argcheck", "validate"}) =>
        /\ ~fileExists =>
            /\ outcome = "FileMissing"
            /\ diag \in {"none", "File Error"}
            /\ pc \in {"finally", "exited"} => diag = "File Error"
        /\ (fileExists /\ ~fileReadable) =>
            /\ outcome = "NotReadable"
            /\ diag \in {"none", "Permission Error"}
            /\ pc \in {"finally", "exited"} => diag = "Permission Error"
        /\ (fileExists /\ fileReadable) => outcome \notin {"FileMissing", "NotReadable"}
        /\ outcome \in {"FileMissing", "NotReadable"} =>
            (hookCalls = 0 /\ G = NoGraph /\ topo = << >>)

\* The run has ended on an unreadable file.
C17_Witness ==
    /\ Exited
    /\ fileExists
    /\ ~fileReadable
    /\ outcome = "NotReadable"
    /\ diag = "Permission Error"

====
